---- MODULE Spec2Model ----
(***************************************************************************)
(* PGExplainer (ExplanationEvaluation/explainers/PGExplainer.py) as a      *)
(* state machine: the explainer object, the persisted parameter files,     *)
(* and the position of the running prepare / train call.                   *)
(*                                                                         *)
(* Numbers are fixed point.  A mask value is a level m in 1..3 standing    *)
(* for m/4; losses are in thousandths.  Tensors of rank 0 and rank 1 are   *)
(* kept apart ([dim |-> 0 or 1, data |-> sequence]) because squeeze()      *)
(* produces both and the code indexes them differently.                    *)
(***************************************************************************)
EXTENDS Integers, Sequences, FiniteSets, TLC

\* ------------------------------------------------------------------ bounds
MaxEpochs == 2      \* largest self.epochs an explainer is built with
MaxIndices == 2     \* longest index list handed to prepare / train
MaxCalls == 2       \* calls made on one explainer object, explain calls apart

\* --------------------------------------------------------- program constants
KHops == 3          \* k_hop_subgraph(n, 3, ...)
Temp0 == 5          \* temp = (5.0, 2.0)
Temp1 == 2

Seeds == {0, 1}
NoiseVals == {-6, 6}          \* log(eps) - log(1 - eps), quantised
RegCoefChoices == {<<0, 0, 0>>, <<1, 2, 1>>, <<1, 2>>}

\* ------------------------------------------------------------------ dataset
\* A graph is the 2 x E edge index: graph[1] the sources, graph[2] the targets.
GraphDataset ==
  << << <<0>>, <<1>> >>,
     << <<0, 0, 1>>, <<1, 2, 0>> >>,
     << <<0, 1>>, <<1, 0>> >> >>

NodeDataset == << <<0, 1, 0>>, <<1, 2, 2>> >>
NodeCount == Cardinality({NodeDataset[1][k] : k \in 1..3} \cup {NodeDataset[2][k] : k \in 1..3})

NumEdges(graph) == Len(graph[1])

\* ------------------------------------------------------------- arithmetic
RECURSIVE SumSeq(_)
SumSeq(s) == IF s = <<>> THEN 0 ELSE Head(s) + SumSeq(Tail(s))

RECURSIVE Pow(_, _)
Pow(b, n) == IF n = 0 THEN 1 ELSE b * Pow(b, n - 1)

\* -log(m/4) in thousandths
NegLog(m) == CASE m = 1 -> 1386 [] m = 2 -> 693 [] m = 3 -> 288 [] OTHER -> 0

\* torch.sigmoid, quantised to the three interior levels
Sigmoid(x) == IF x < 0 THEN 1 ELSE IF x = 0 THEN 2 ELSE 3

\* ---------------------------------------------------------------- tensors
Tensor0(v) == [dim |-> 0, data |-> <<v>>]
Tensor1(vs) == [dim |-> 1, data |-> vs]

\* Tensor.squeeze() of a (1, E, 1) tensor: every axis of size one is dropped,
\* so one edge leaves a rank-0 tensor and any other count a rank-1 tensor.
Squeeze(vs) == IF Len(vs) = 1 THEN Tensor0(vs[1]) ELSE Tensor1(vs)

\* ------------------------------------------------------ the explained model
\* model_to_explain.embedding: one number per node (embedding_size = 1).
Embedding(node) == node

\* cross_entropy(masked_pred, argmax(original_pred)): the masked forward pass
\* strays further from the unmasked one the more edges the mask turns down
CrossEntropy(graph, mask) ==
  250 * Cardinality({k \in 1..Len(mask.data) : mask.data[k] < 2})

\* torch_geometric.utils.k_hop_subgraph(n, hops, edge_index)[1], flow
\* source_to_target: the nodes that reach n in at most `hops` steps, then the
\* edges with both ends among them, in edge-list order.
RECURSIVE KHopNodes(_, _, _, _)
KHopNodes(frontier, subset, hops, graph) ==
  IF hops = 0 THEN subset
  ELSE LET nxt == {graph[1][k] : k \in {j \in 1..NumEdges(graph) : graph[2][j] \in frontier}}
       IN KHopNodes(nxt, subset \cup nxt, hops - 1, graph)

RECURSIVE SelectEdges(_, _, _)
SelectEdges(graph, keep, k) ==
  IF k > NumEdges(graph) THEN << <<>>, <<>> >>
  ELSE LET rest == SelectEdges(graph, keep, k + 1)
       IN IF graph[1][k] \in keep /\ graph[2][k] \in keep
          THEN << <<graph[1][k]>> \o rest[1], <<graph[2][k]>> \o rest[2] >>
          ELSE rest

k_hop_subgraph(n, hops, graph) ==
  SelectEdges(graph, KHopNodes({n}, {n}, hops, graph), 1)

\* The subgraph of every node of the node task
NodeSubgraphs == [n \in 0..(NodeCount - 1) |-> k_hop_subgraph(n, KHops, NodeDataset)]

\* The (sub)graph train and explain work on for index n.
GraphOf(ty, n) ==
  IF ty = "node" THEN NodeSubgraphs[n]
  ELSE GraphDataset[n + 1]

IndexDomain(ty) == IF ty = "node" THEN 0..(NodeCount - 1) ELSE 0..(Len(GraphDataset) - 1)

\* self.graphs.size(0): 2 for the node task's 2 x E tensor; the graph task's
\* list of tensors has no size()
GraphsSize0(ty) ==
  IF ty = "node" THEN [err |-> "", val |-> 2] ELSE [err |-> "AttributeError", val |-> 0]

\* ------------------------------------------------------------ input builder
_create_explainer_input(ty, pair, node_id) ==
  [k \in 1..NumEdges(pair) |->
     IF ty = "node"
     THEN <<Embedding(pair[1][k]), Embedding(pair[2][k]), Embedding(node_id)>>
     ELSE <<Embedding(pair[1][k]), Embedding(pair[2][k])>>]

\* ------------------------------------------------------------ mask predictor
\* The input rows the predictor is ever applied to: one per edge of every
\* (sub)graph of the task
InputRows(ty) ==
  UNION {{_create_explainer_input(ty, GraphOf(ty, n), n)[k] : k \in 1..NumEdges(GraphOf(ty, n))}
           : n \in IndexDomain(ty)}

NodeInputRows == InputRows("node")
GraphInputRows == InputRows("graph")
Rows(ty) == IF ty = "node" THEN NodeInputRows ELSE GraphInputRows

\* nn.Sequential(Linear(expl_embedding, 64), ReLU, Linear(64, 1)) is followed by
\* what it computes: the logit of each input row, quantised to its sign (-1
\* below zero, 1 above).  Equal rows get equal logits; with one weight per
\* input column and 64 hidden units the signs of different rows are free of
\* each other.  `updates` counts the optimizer steps applied to the parameters
Logits(ty) == [Rows(ty) -> {-1, 1}]

\* Lines 162-166: nn.Linear draws its weights at random, so every prepare()
\* starts from any of the predictors
NodeFreshModels == {[logit |-> f, updates |-> 0] : f \in Logits("node")}
GraphFreshModels == {[logit |-> f, updates |-> 0] : f \in Logits("graph")}
FreshModels(ty) == IF ty = "node" THEN NodeFreshModels ELSE GraphFreshModels

Forward(m, input_expl) ==
  [k \in 1..Len(input_expl) |-> m.logit[input_expl[k]]]

\* What one optimizer.step() does to the logit of each row: Adam moves every
\* weight by about one learning rate or not at all, each on its own, which
\* carries a logit that was close to zero to the other sign (TRUE) or leaves
\* its sign (FALSE), row by row
NodeAdamMoves == [NodeInputRows -> BOOLEAN]
GraphAdamMoves == [GraphInputRows -> BOOLEAN]
AdamMoves(ty) == IF ty = "node" THEN NodeAdamMoves ELSE GraphAdamMoves

\* optimizer.step() moving the parameters so that the logits turn as d says
AdamStep(m, d) ==
  [logit |-> [r \in DOMAIN m.logit |-> IF d[r] THEN -m.logit[r] ELSE m.logit[r]],
   updates |-> m.updates + 1]

\* ------------------------------------------------------------------ sampler
\* temp[0] * (temp[1] / temp[0]) ** (e / epochs), rounded down
temp_schedule(e, epochs) ==
  LET x == Pow(Temp0, epochs - e) * Pow(Temp1, e)
  IN CHOOSE r \in 0..Temp0 : Pow(r, epochs) <= x /\ Pow(r + 1, epochs) > x

\* torch.rand(sampling_weights.size()): one independent draw per edge
NoiseVectors(E) == [1..E -> NoiseVals]

\* x / t for t > 0, rounded away from zero: the quotient keeps the sign of x
Quotient(x, t) == IF x >= 0 THEN (x + t - 1) \div t ELSE -((t - x - 1) \div t)

\* The sampler without its inference branch
SampleGraphAlwaysNoisy(sampling_weights, temperature, noise, training) ==
  [k \in 1..Len(sampling_weights) |->
     Sigmoid(Quotient(noise[k] + sampling_weights[k], temperature))]

_sample_graph(sampling_weights, temperature, noise, training) ==
  IF training
  THEN [k \in 1..Len(sampling_weights) |->
          Sigmoid(Quotient(noise[k] + sampling_weights[k], temperature))]
  ELSE [k \in 1..Len(sampling_weights) |-> Sigmoid(sampling_weights[k])]

\* --------------------------------------------------------------------- loss
\* -m log m - (1 - m) log (1 - m) of one mask entry
BinaryEntropy(m) == (m * NegLog(m) + (4 - m) * NegLog(4 - m)) \div 4

\* The float nan, kept apart from every loss value
NaN == -1000000
Times(c, x) == IF x = NaN THEN NaN ELSE c * x
Plus(x, y) == IF x = NaN \/ y = NaN THEN NaN ELSE x + y

\* torch.mean: nan on a tensor without entries
MeanSeq(s) == IF s = <<>> THEN NaN ELSE SumSeq(s) \div Len(s)

\* _loss: <<cce_loss, size_loss, mask_ent_loss>>.  cce is the cross entropy the
\* explained model's two forward passes give; mask is the squeezed tensor.
_loss(cce, mask, coefs) ==
  LET size_reg == coefs[1]
      entropy_reg == coefs[2]
      size_loss == SumSeq([k \in 1..Len(mask.data) |-> 250 * mask.data[k]]) * size_reg
      mask_ent_reg == [k \in 1..Len(mask.data) |-> BinaryEntropy(mask.data[k])]
      mask_ent_loss == Times(entropy_reg, MeanSeq(mask_ent_reg))
  IN <<cce, size_loss, mask_ent_loss>>

\* Lines 118-128: the loop over graph[0].  A new list is started whenever the
\* source differs from the previous edge's source; the list being filled when
\* the loop ends is not appended.  Lists hold edge positions (the code holds
\* mask[idx] for the same positions).
RECURSIVE CollectAdjacent(_, _, _, _, _)
CollectAdjacent(srcs, idx, start_node, adjacent_masks, total) ==
  IF idx > Len(srcs) THEN total
  ELSE IF start_node # srcs[idx]
       THEN CollectAdjacent(srcs, idx + 1, srcs[idx], <<idx>>, Append(total, adjacent_masks))
       ELSE CollectAdjacent(srcs, idx + 1, start_node, Append(adjacent_masks, idx), total)

total_mask_score(graph) == CollectAdjacent(graph[1], 1, graph[1][1], <<>>, <<>>)

\* torch.combinations(torch.stack(masks), r=2): the pairs a < b, in order
RECURSIVE PairsFrom(_, _, _)
PairsFrom(masks, a, b) ==
  IF a >= Len(masks) THEN <<>>
  ELSE IF b > Len(masks) THEN PairsFrom(masks, a + 1, a + 2)
  ELSE << <<masks[a], masks[b]>> >> \o PairsFrom(masks, a, b + 1)

pair_order_list(masks) == PairsFrom(masks, 1, 2)

\* -pair[0] * log(pair[1]) - (1 - pair[0]) * log(1 - pair[0])
PairLoss(p0, p1) == (p0 * NegLog(p1) + (4 - p0) * NegLog(4 - p0)) \div 4

\* Lines 132-140 for one list: the mean of its pairwise terms, 0 without pairs
GroupMean(masks, mask) ==
  LET pairs == pair_order_list(masks)
      sum_loss == SumSeq([k \in 1..Len(pairs) |->
                            PairLoss(mask.data[pairs[k][1]], mask.data[pairs[k][2]])])
  IN IF Len(pairs) > 0 THEN sum_loss \div Len(pairs) ELSE 0

\* _connectivity_loss: [err |-> the exception raised, or "", val |-> the loss]
_connectivity_loss(graph, mask, coefs) ==
  IF Len(coefs) < 3 THEN [err |-> "IndexError", val |-> 0]                  \* line 116
  ELSE IF NumEdges(graph) = 0 THEN [err |-> "IndexError", val |-> 0]        \* line 120
  ELSE IF mask.dim = 0 THEN [err |-> "IndexError", val |-> 0]               \* line 128
  ELSE LET total == total_mask_score(graph)
           mean_all_starts == SumSeq([g \in 1..Len(total) |-> GroupMean(total[g], mask)])
       IN IF Len(total) = 0 THEN [err |-> "ZeroDivisionError", val |-> 0]   \* line 142
          ELSE [err |-> "", val |-> coefs[3] * (mean_all_starts \div Len(total))]

\* ---------------------------------------------------------------- extractor
\* utils.graph.index_edge(graph, pair): the positions of `pair` in the edge list
index_edge(graph, pair) ==
  {k \in 1..NumEdges(graph) : graph[1][k] = pair[1] /\ graph[2][k] = pair[2]}

\* Lines 284-288: expl_graph_weights[t] = mask[i] for i = 0 .. mask.size(0) - 1
RECURSIVE Scatter(_, _, _, _)
Scatter(graph, mask, weights, i) ==
  IF i > Len(mask.data) THEN weights
  ELSE LET t == index_edge(graph, <<graph[1][i], graph[2][i]>>)
       IN Scatter(graph, mask,
                  [k \in 1..Len(weights) |-> IF k \in t THEN mask.data[i] ELSE weights[k]],
                  i + 1)

NoResult == [status |-> "none", index |-> 0, error |-> "", graph |-> << <<>>, <<>> >>,
             weights |-> <<>>]

\* explain(index); model is <<>> when prepare never ran and <<m>> otherwise;
\* `noise` is what torch.rand would give, read only by the training-mode sampler.
explain(ty, model, index, noise) ==
  LET graph == GraphOf(ty, index)
      input_expl == _create_explainer_input(ty, graph, index)
  IN IF model = <<>>
     THEN [NoResult EXCEPT !.status = "raised", !.index = index,
                           !.error = "AttributeError"]                      \* line 281
     ELSE LET sampling_weights == Forward(model[1], input_expl)
              mask == Squeeze(_sample_graph(sampling_weights, 1, noise, FALSE))
              zeros == [k \in 1..NumEdges(graph) |-> 0]
          IN IF mask.dim = 0
             THEN [NoResult EXCEPT !.status = "raised", !.index = index,
                                   !.error = "IndexError"]                  \* line 285
             ELSE [status |-> "returned", index |-> index, error |-> "", graph |-> graph,
                   weights |-> Scatter(graph, mask, zeros, 1)]

\* -------------------------------------------------------------------- state
VARIABLES
  type,             \* self.type: "node" or "graph"
  reg_coefs,        \* self.reg_coefs
  epochs,           \* self.epochs
  model_dir,        \* whether the directory ./explainer_model exists
  explainer_model,  \* self.explainer_model: <<>> until prepare creates it, then <<m>>
  files,            \* ./explainer_model/model<seed>.pt: <<>> when absent, else <<m>>
  pc,               \* position of the running call, "idle" between calls
  op,               \* the method last called: "none", "prepare", "train",
                    \* "save_model" or "load_model"
  outcome,          \* how that call ended: "none", "running", "returned" or an exception
  seed,             \* the seed of the last prepare call, which names its file
  indices,          \* the index list of the running call (after lines 168-169)
  found_saved,      \* os.path.exists(...) as prepare saw it
  e, i,             \* epoch, and position in `indices` of the next example
  acc,              \* loss, total_pred_loss, total_size_loss, total_ent_loss, total_conn_loss
  example,          \* the per-example values of the last pass through lines 213-237
                    \* of the running sweep (kept when that pass raised)
  opt_steps,        \* optimizer.step() calls made by the call
  emissions,        \* epochs whose five scalars were written
  metrics,          \* the five scalars written for the epoch just swept
  saves,            \* save_model calls made by the call
  explain_out,      \* what the last explain call gave, if one ran since prepare / train
  calls             \* calls made so far, explain calls apart

vars == <<type, reg_coefs, epochs, model_dir, explainer_model, files, pc, op, outcome, seed, indices,
          found_saved, e, i, acc, example, opt_steps, emissions, metrics, saves,
          explain_out, calls>>

ZeroAcc == [loss |-> 0, pred |-> 0, size |-> 0, ent |-> 0, conn |-> 0]
NoExample == [status |-> "none", n |-> 0, graph |-> << <<>>, <<>> >>,
              cce |-> 0, size |-> 0, ent |-> 0, conn |-> 0, total |-> 0]

\* The index lists handed in: up to n distinct indices, in ascending order
AscendingLists(S, n) ==
  {q \in UNION {[1..k -> S] : k \in 0..n} : \A a, b \in 1..Len(q) : a < b => q[a] < q[b]}

\* __init__: nothing is created but the configuration; the model directory is empty
Init ==
  /\ type \in {"graph", "node"}
  /\ reg_coefs \in RegCoefChoices
  /\ epochs \in 1..MaxEpochs
  /\ model_dir \in BOOLEAN
  /\ explainer_model = <<>>
  /\ files = [s \in Seeds |-> <<>>]
  /\ pc = "idle" /\ op = "none" /\ outcome = "none"
  /\ seed = 0 /\ indices = <<>> /\ found_saved = FALSE
  /\ e = 0 /\ i = 0 /\ acc = ZeroAcc /\ example = NoExample
  /\ opt_steps = 0 /\ emissions = 0 /\ metrics = ZeroAcc /\ saves = 0
  /\ explain_out = NoResult
  /\ calls = 0

\* ------------------------------------------------------------------ helpers
\* A prepare that builds the predictor only when there is none yet
KeepExplainerModel(old, fresh) == IF old = <<>> THEN <<fresh>> ELSE old

\* Lines 162-166: self.explainer_model = nn.Sequential(...), whatever it was
NewExplainerModel(old, fresh) == <<fresh>>

\* A prepare that never finds the persisted file
SavedModelNeverExists(fs, s) == FALSE

\* Line 171: os.path.exists("./explainer_model/model" + str(seed) + ".pt")
SavedModelExists(fs, s) == fs[s] # <<>>

\* Lines 168-169: None stands for every index, range(0, self.graphs.size(0))
ResolveIndices(ty, arg) ==
  IF arg.none
  THEN [err |-> GraphsSize0(ty).err, seq |-> [k \in 1..GraphsSize0(ty).val |-> k - 1]]
  ELSE [err |-> "", seq |-> arg.seq]

NodeIndexLists == AscendingLists(IndexDomain("node"), MaxIndices)
GraphIndexLists == AscendingLists(IndexDomain("graph"), MaxIndices)
IndexLists(ty) == IF ty = "node" THEN NodeIndexLists ELSE GraphIndexLists
IndexArgs(ty) == {[none |-> TRUE, seq |-> <<>>]} \cup {[none |-> FALSE, seq |-> q] : q \in IndexLists(ty)}

\* backward() and step() indented into the loop over indices
BackwardDueEachExample(pos, idx) == pos > 1

\* Lines 246-247 sit after the loop over indices: the sweep is over
BackwardDue(pos, idx) == pos > Len(idx)

\* The epoch loss without the connectivity term
AccumulateWithoutConn(a, cce_loss, size_loss, mask_ent_loss, connectivity_loss) ==
  [loss |-> a.loss + (cce_loss + size_loss + mask_ent_loss),
   pred |-> a.pred + cce_loss,
   size |-> a.size + size_loss,
   ent  |-> a.ent + mask_ent_loss,
   conn |-> a.conn + connectivity_loss]

\* Lines 239-244
Accumulate(a, cce_loss, size_loss, mask_ent_loss, connectivity_loss) ==
  [loss |-> a.loss + (cce_loss + size_loss + mask_ent_loss + connectivity_loss),
   pred |-> a.pred + cce_loss,
   size |-> a.size + size_loss,
   ent  |-> a.ent + mask_ent_loss,
   conn |-> a.conn + connectivity_loss]

\* Lines 250-254: each scalar divided by len(indices)
Normalised(a, idx) ==
  [loss |-> a.loss \div Len(idx), pred |-> a.pred \div Len(idx), size |-> a.size \div Len(idx),
   ent |-> a.ent \div Len(idx), conn |-> a.conn \div Len(idx)]

\* An exception leaves the call; the frame is gone
Raise(err) ==
  /\ pc' = "idle" /\ outcome' = err
  /\ indices' = <<>> /\ e' = 0 /\ i' = 0 /\ acc' = ZeroAcc

Return ==
  /\ pc' = "idle" /\ outcome' = "returned"
  /\ indices' = <<>> /\ e' = 0 /\ i' = 0 /\ acc' = ZeroAcc
  /\ example' = NoExample /\ metrics' = ZeroAcc

StartCall(name, s) ==
  /\ pc = "idle" /\ calls < MaxCalls
  /\ calls' = calls + 1
  /\ op' = name /\ seed' = s
  /\ found_saved' = FALSE /\ example' = NoExample
  /\ opt_steps' = 0 /\ emissions' = 0 /\ metrics' = ZeroAcc /\ saves' = 0
  /\ explain_out' = NoResult

\* ------------------------------------------------------------------ prepare
\* Lines 162-169
CallPrepare(s, arg) ==
  /\ StartCall("prepare", s)
  /\ \E fresh \in FreshModels(type) : explainer_model' = NewExplainerModel(explainer_model, fresh)
  /\ IF ResolveIndices(type, arg).err # ""
     THEN Raise(ResolveIndices(type, arg).err)                            \* line 169
     ELSE /\ indices' = ResolveIndices(type, arg).seq
          /\ pc' = "prepare_exists" /\ outcome' = "running"
          /\ UNCHANGED <<e, i, acc>>
  /\ UNCHANGED <<type, reg_coefs, epochs, model_dir, files>>

\* Lines 171-173: load_state_dict copies the persisted parameters in
PrepareLoad ==
  /\ pc = "prepare_exists" /\ SavedModelExists(files, seed)
  /\ found_saved' = TRUE
  /\ explainer_model' = files[seed]
  /\ Return
  /\ UNCHANGED <<type, reg_coefs, epochs, model_dir, files, op, seed, opt_steps, emissions, saves,
                 explain_out, calls>>

\* Line 175 and lines 185-200 of train
PrepareTrain ==
  /\ pc = "prepare_exists" /\ ~SavedModelExists(files, seed)
  /\ pc' = "epoch" /\ e' = 0
  /\ UNCHANGED <<type, reg_coefs, epochs, model_dir, explainer_model, files, op, outcome, seed, indices,
                 found_saved, i, acc, example, opt_steps, emissions, metrics, saves,
                 explain_out, calls>>

\* Line 176: torch.save opens the file for writing, which needs the directory
\* ./explainer_model; nothing in the program creates it
PrepareSave ==
  /\ pc = "save"
  /\ IF model_dir
     THEN /\ files' = [files EXCEPT ![seed] = explainer_model]
          /\ saves' = saves + 1
          /\ Return
     ELSE /\ Raise("FileNotFoundError")                                   \* line 148
          /\ UNCHANGED <<files, saves, example, metrics>>
  /\ UNCHANGED <<type, reg_coefs, epochs, model_dir, explainer_model, op, seed, found_saved,
                 opt_steps, emissions, explain_out, calls>>

\* -------------------------------------------------------------------- train
\* train(seed, indices) called directly: lines 185-200. The seed only names
\* the log directories of lines 196-200; None for indices fails at the first
\* `for n in indices`.
CallTrain(s, arg) ==
  /\ StartCall("train", seed)
  /\ IF explainer_model = <<>>
     THEN Raise("AttributeError")                                         \* line 185
     ELSE IF arg.none
          THEN Raise("TypeError")                                         \* line 212
          ELSE /\ pc' = "epoch" /\ outcome' = "running"
               /\ indices' = arg.seq /\ e' = 0 /\ i' = 0 /\ acc' = ZeroAcc
  /\ UNCHANGED <<type, reg_coefs, epochs, model_dir, explainer_model, files>>

\* Lines 203-210: the accumulators start at zero in every epoch
EpochStart ==
  /\ pc = "epoch" /\ e < epochs
  /\ acc' = ZeroAcc /\ i' = 1 /\ pc' = "sweep"
  /\ example' = NoExample /\ metrics' = ZeroAcc
  /\ UNCHANGED <<type, reg_coefs, epochs, model_dir, explainer_model, files, op, outcome, seed,
                 indices, found_saved, e, opt_steps, emissions, saves, explain_out, calls>>

\* Lines 212-244 for one index
TrainExample ==
  /\ pc = "sweep" /\ i <= Len(indices)
  /\ LET n == indices[i]
         graph == GraphOf(type, n)
         input_expl == _create_explainer_input(type, graph, n)
         sampling_weights == Forward(explainer_model[1], input_expl)
         t == temp_schedule(e, epochs)
     IN \E noise \in NoiseVectors(NumEdges(graph)) :
        \* lines 226-237: mask, the three terms of _loss, the connectivity loss
        \E mask \in {Squeeze(_sample_graph(sampling_weights, t, noise, TRUE))} :
        \E terms \in {_loss(CrossEntropy(graph, mask), mask, reg_coefs)},
           connectivity_loss \in {_connectivity_loss(graph, mask, reg_coefs)} :
          LET seen == [status |-> "ok", n |-> n, graph |-> graph,
                       cce |-> terms[1], size |-> terms[2], ent |-> terms[3],
                       conn |-> connectivity_loss.val,
                       total |-> Plus(Plus(terms[1], terms[2]),
                                      Plus(terms[3], connectivity_loss.val))]
          IN IF connectivity_loss.err # ""
             THEN /\ example' = [seen EXCEPT !.status = connectivity_loss.err]
                  /\ Raise(connectivity_loss.err)
             ELSE /\ example' = seen
                  /\ acc' = Accumulate(acc, terms[1], terms[2], terms[3], connectivity_loss.val)
                  /\ i' = i + 1
                  /\ UNCHANGED <<pc, outcome, indices, e>>
  /\ UNCHANGED <<type, reg_coefs, epochs, model_dir, explainer_model, files, op, seed, found_saved,
                 opt_steps, emissions, metrics, saves, explain_out, calls>>

\* Lines 246-254: backward() needs a loss that depends on the parameters, which
\* the zero tensor of an empty sweep does not; then the step, then the five
\* scalars of the epoch.  The sums stay as they are until the next epoch head
BackwardStep ==
  /\ pc = "sweep" /\ BackwardDue(i, indices)
  /\ IF Len(indices) = 0
     THEN /\ Raise("RuntimeError")
          /\ UNCHANGED <<explainer_model, opt_steps, emissions, metrics>>
     ELSE /\ \E d \in AdamMoves(type) : explainer_model' = <<AdamStep(explainer_model[1], d)>>
          /\ opt_steps' = opt_steps + 1
          /\ metrics' = Normalised(acc, indices)
          /\ emissions' = emissions + 1
          /\ e' = e + 1 /\ pc' = "epoch"
          /\ UNCHANGED <<outcome, indices, i, acc>>
  /\ UNCHANGED <<type, reg_coefs, epochs, model_dir, files, op, seed, found_saved, example, saves,
                 explain_out, calls>>

\* Lines 255-259, then back in prepare (line 176) or out of train: the frame of
\* train is gone either way
TrainReturn ==
  /\ pc = "epoch" /\ e >= epochs
  /\ IF op = "prepare"
     THEN /\ pc' = "save" /\ e' = 0 /\ i' = 0 /\ acc' = ZeroAcc
          /\ example' = NoExample /\ metrics' = ZeroAcc
          /\ UNCHANGED <<outcome, indices>>
     ELSE Return
  /\ UNCHANGED <<type, reg_coefs, epochs, model_dir, explainer_model, files, op, seed, found_saved,
                 opt_steps, emissions, saves, explain_out, calls>>

\* ------------------------------------------------- save_model, load_model
\* save_model(seed) called directly: line 148
CallSaveModel(s) ==
  /\ StartCall("save_model", seed)
  /\ IF explainer_model = <<>>
     THEN /\ outcome' = "AttributeError" /\ UNCHANGED files
     ELSE IF model_dir
          THEN /\ outcome' = "returned" /\ files' = [files EXCEPT ![s] = explainer_model]
          ELSE /\ outcome' = "FileNotFoundError" /\ UNCHANGED files
  /\ UNCHANGED <<type, reg_coefs, epochs, model_dir, explainer_model, pc, indices, e, i, acc>>

\* load_model(seed) called directly: line 152
CallLoadModel(s) ==
  /\ StartCall("load_model", seed)
  /\ IF explainer_model = <<>>
     THEN /\ outcome' = "AttributeError" /\ UNCHANGED explainer_model
     ELSE IF files[s] = <<>>
          THEN /\ outcome' = "FileNotFoundError" /\ UNCHANGED explainer_model
          ELSE /\ outcome' = "returned" /\ explainer_model' = files[s]
  /\ UNCHANGED <<type, reg_coefs, epochs, model_dir, files, pc, indices, e, i, acc>>

\* ------------------------------------------------------------------ explain
Explain(index) ==
  /\ pc = "idle"
  /\ \E noise \in NoiseVectors(NumEdges(GraphOf(type, index))) :
       explain_out' = explain(type, explainer_model, index, noise)
  /\ UNCHANGED <<type, reg_coefs, epochs, model_dir, explainer_model, files, pc, op, outcome, seed,
                 indices, found_saved, e, i, acc, example, opt_steps, emissions, metrics, saves,
                 calls>>

Next ==
  \/ pc = "idle" /\ \E s \in Seeds, arg \in IndexArgs(type) : CallPrepare(s, arg)
  \/ PrepareLoad
  \/ PrepareTrain
  \/ PrepareSave
  \/ pc = "idle" /\ \E s \in Seeds, arg \in IndexArgs(type) : CallTrain(s, arg)
  \/ EpochStart
  \/ TrainExample
  \/ BackwardStep
  \/ TrainReturn
  \/ \E s \in Seeds : CallSaveModel(s)
  \/ \E s \in Seeds : CallLoadModel(s)
  \/ \E index \in IndexDomain(type) : Explain(index)

Spec == Init /\ [][Next]_vars

\* ------------------------------------------------------------------- claims
PrepareFinished == op = "prepare" /\ pc = "idle"

\* C1: prepare(seed, indices) always ends in the trained state, by exactly one
\* of two paths: the persisted parameters of the seed existed, were loaded, and
\* nothing was trained, emitted or saved; or the full training loop ran and its
\* result was then persisted, so that a persisted state for the seed exists.
\* Stated for an explainer configured with three coefficients, a call with an
\* explicit, non-empty index list and an existing ./explainer_model directory.
C1_PrepareEndsTrained ==
  (PrepareFinished /\ Len(reg_coefs) = 3
     /\ outcome \notin {"RuntimeError", "AttributeError", "FileNotFoundError"}) =>
    /\ outcome = "returned"
    /\ SavedModelExists(files, seed)
    /\ IF found_saved
       THEN opt_steps = 0 /\ emissions = 0 /\ saves = 0 /\ explainer_model = files[seed]
       ELSE opt_steps = epochs /\ emissions = epochs /\ saves = 1
            /\ files[seed] = explainer_model

\* C2: in train, the backward pass and the optimizer step of an epoch happen
\* only after every index of the training set has been processed, never between
\* two indices, once per epoch; a complete train run performs exactly `epochs`
\* optimizer steps whatever the number of indices.
C2_OneStepPerEpochAfterSweep ==
  [][/\ (opt_steps' # opt_steps /\ pc # "idle") =>
          /\ pc = "sweep" /\ i = Len(indices) + 1
          /\ opt_steps = e /\ opt_steps' = opt_steps + 1 /\ e' = e + 1
     /\ (pc = "epoch" /\ pc' \in {"idle", "save"}) => opt_steps = epochs
    ]_vars

C2_Witness == pc = "epoch" /\ Len(indices) = 2 /\ epochs = 2 /\ opt_steps = epochs

EveryNodeOneOutgoingEdge(graph) ==
  /\ NumEdges(graph) >= 1
  /\ \A a, b \in 1..NumEdges(graph) : a # b => graph[1][a] # graph[1][b]

\* C3: for every graph in which every node has exactly one outgoing edge (a
\* graph with a single edge included) the connectivity loss is well defined:
\* it completes without a failure and contributes exactly zero.
C3_OneOutgoingEdgeGivesZero ==
  (example.status # "none" /\ Len(reg_coefs) = 3 /\ EveryNodeOneOutgoingEdge(example.graph)) =>
    (example.status = "ok" /\ example.conn = 0)

GroupsOf(graph, k) == {g \in 1..Len(total_mask_score(graph)) :
                         \E p \in 1..Len(total_mask_score(graph)[g]) :
                            total_mask_score(graph)[g][p] = k}

\* C4: the connectivity loss groups edges by shared source node: every edge is
\* in exactly one group, two edges are in the same group exactly when they have
\* the same source, and so every pair of distinct edges sharing a source
\* contributes a pairwise term, wherever the edges sit in the edge list.
C4_GroupsBySharedSource ==
  (example.status = "ok") =>
    LET graph == example.graph
    IN /\ \A k \in 1..NumEdges(graph) : Cardinality(GroupsOf(graph, k)) = 1
       /\ \A a, b \in 1..NumEdges(graph) :
            (graph[1][a] = graph[1][b]) <=> (GroupsOf(graph, a) \cap GroupsOf(graph, b) # {})

Trained == op = "prepare" /\ outcome = "returned"

InferenceMask(ty, model, index) ==
  Forward(model[1], _create_explainer_input(ty, GraphOf(ty, index), index))

\* C5: for every queried (sub)graph with E >= 1 edges, explain(index) on a
\* trained explainer returns the edge list and a weight vector of exactly E
\* entries whose i-th entry is the inference-mode mask value of the i-th edge;
\* for a 2-node, 1-edge graph it returns a vector of length 1, it does not fail.
C5_ExplainReturnsOneWeightPerEdge ==
  (Trained /\ pc = "idle" /\ explain_out.status # "none"
     /\ NumEdges(GraphOf(type, explain_out.index)) >= 1) =>
    LET graph == GraphOf(type, explain_out.index)
        logits == InferenceMask(type, explainer_model, explain_out.index)
    IN /\ explain_out.status = "returned"
       /\ explain_out.graph = graph
       /\ Len(explain_out.weights) = NumEdges(graph)
       /\ \A k \in 1..NumEdges(graph) : explain_out.weights[k] = Sigmoid(logits[k])

\* C6: explain is idempotent: two explain calls with the same index and no
\* prepare or train call in between give identical results, and an explain call
\* leaves the predictor's parameters, the persisted files and the configuration
\* as they were.
C6_ExplainIdempotent ==
  [][/\ (explain_out.status # "none" /\ explain_out'.status # "none"
           /\ explain_out'.index = explain_out.index) => explain_out' = explain_out
     /\ (explain_out'.status # "none" /\ explain_out' # explain_out) =>
          UNCHANGED <<explainer_model, files, type, reg_coefs>>
    ]_vars

C6_Witness ==
  /\ Trained /\ explain_out.status = "returned"
  /\ \E a, b \in 1..Len(explain_out.weights) : explain_out.weights[a] # explain_out.weights[b]

DirectSaveCall == calls' = calls + 1 /\ op' = "save_model"

\* C7: in prepare, train and explain calls a persisted file, once written, is
\* never overwritten or deleted; such a call writes a file only in a prepare
\* that found none for its seed, and only after that call's training has
\* completed.
C7_PersistedStateImmutable ==
  [][~DirectSaveCall =>
       /\ \A s \in Seeds : files[s] # <<>> => files'[s] = files[s]
       /\ files' # files =>
            /\ op = "prepare" /\ pc = "save" /\ ~found_saved
            /\ files[seed] = <<>> /\ opt_steps = epochs /\ emissions = epochs
            /\ \A s \in Seeds \ {seed} : files'[s] = files[s]
    ]_vars

C7_Witness ==
  /\ calls = 2 /\ pc = "idle" /\ outcome = "returned"
  /\ \E s \in Seeds : files[s] # <<>> /\ files[s] # explainer_model

SumOfTerms(a) == a.pred + a.size + a.ent + a.conn

\* C8: when an epoch's backward pass runs, the accumulated loss is the sum over
\* the training indices of fidelity + size + entropy + connectivity, that is the
\* sum of the four per-term totals, not divided by the index count; the
\* accumulators start every epoch at zero; only the five emitted metrics are
\* divided by the index count.
C8_EpochLossIsUndividedSum ==
  [][/\ (pc' = "sweep") => acc'.loss = SumOfTerms(acc')
     /\ (pc' = "sweep" /\ i' = 1) => acc' = ZeroAcc
     /\ (pc = "sweep" /\ i' = i + 1) =>
          /\ acc'.loss = acc.loss + example'.cce + example'.size + example'.ent + example'.conn
          /\ acc'.pred = acc.pred + example'.cce /\ acc'.size = acc.size + example'.size
          /\ acc'.ent = acc.ent + example'.ent /\ acc'.conn = acc.conn + example'.conn
     /\ (opt_steps' = opt_steps + 1) => (acc' = acc /\ acc.loss = SumOfTerms(acc))
     /\ (emissions' = emissions + 1) =>
          /\ opt_steps' = opt_steps + 1
          /\ metrics'.loss = acc.loss \div Len(indices)
          /\ metrics'.pred = acc.pred \div Len(indices)
          /\ metrics'.size = acc.size \div Len(indices)
          /\ metrics'.ent = acc.ent \div Len(indices)
          /\ metrics'.conn = acc.conn \div Len(indices)
    ]_vars

C8_Witness ==
  /\ pc = "epoch" /\ e < epochs /\ emissions = 1 /\ Len(indices) = 2
  /\ acc.conn > 0 /\ acc.pred > 0 /\ acc.loss = SumOfTerms(acc)
  /\ metrics.loss < acc.loss

\* C9: with the size, entropy and connectivity coefficients all 0, the total
\* per-example loss computed in training is defined and is exactly the fidelity
\* (cross-entropy) term, for every graph and mask.
C9_ZeroCoefficientsLeaveFidelity ==
  (reg_coefs = <<0, 0, 0>> /\ example.status # "none") =>
    (example.status = "ok" /\ example.total = example.cce)

\* C10: the mask predictor exists only after a prepare call: on a fresh
\* explainer train and explain fail, creating no predictor, making no optimizer
\* step and writing no file; and every prepare call first replaces the predictor
\* by a freshly initialised one, so that what it ends with is what the file
\* held or `epochs` updates of the fresh one.
C10_PredictorOnlyFromPrepare ==
  [][/\ (explainer_model = <<>> /\ calls' = calls + 1 /\ op' = "train") =>
          /\ outcome' = "AttributeError" /\ pc' = "idle"
          /\ explainer_model' = <<>> /\ files' = files /\ opt_steps' = 0
     /\ (explainer_model = <<>> /\ calls' = calls /\ explain_out' # explain_out) =>
          /\ explain_out'.status = "raised" /\ explain_out'.error = "AttributeError"
          /\ explainer_model' = <<>> /\ files' = files /\ opt_steps' = opt_steps
     /\ (calls' = calls + 1 /\ op' = "prepare") =>
          explainer_model' \in {<<m>> : m \in FreshModels(type)}
     /\ (op = "prepare" /\ outcome = "running" /\ outcome' = "returned") =>
          IF found_saved' THEN explainer_model' = files[seed]
          ELSE explainer_model'[1].updates = epochs
    ]_vars

C10_Witness ==
  /\ calls = 2 /\ op = "prepare" /\ pc = "prepare_exists"
  /\ explainer_model \in {<<m>> : m \in FreshModels(type)}
  /\ \E s \in Seeds : files[s] # <<>> /\ files[s][1].updates = epochs

====
